---- MODULE Spec2Model ----
(***************************************************************************)
(* PRISM-Bench: the evaluation orchestrator (src/src/agent.py, Agent.run,  *)
(* Agent.validate_request, Agent.load_scenarios) and the LLM judge         *)
(* (src/src/evaluator.py, PRISMEvaluator.evaluate).                        *)
(*                                                                         *)
(* Text is modelled as a sequence of tokens, each standing for a fixed     *)
(* piece of text; scores are in hundredths (0.9 is 90), percentages in     *)
(* hundredths of a percent (66.67 is 6667).                                *)
(***************************************************************************)
EXTENDS Integers, Sequences, FiniteSets, TLC

VARIABLES
    request,          \* the EvalRequest handed to Agent.run
    corpus,           \* the lines of the scenario file
    pc,               \* position of Agent.run
    scenarios,        \* agent.py:139
    idx,              \* the loop index i of agent.py:157
    response,         \* agent.py:174
    results,          \* agent.py:148
    level1_failures,  \* agent.py:149
    level2_failures,  \* agent.py:150
    level3_failures,  \* agent.py:151
    domain_scores,    \* agent.py:152
    level_scores,     \* agent.py:153
    sample_failures,  \* agent.py:154
    statuses,         \* the update_status / reject calls made on the updater
    agentLog,         \* one entry per talk_to_agent call: <<index, outcome>>
    judgeLog,         \* one entry per evaluate call: <<index, outcome>>
    resets,           \* number of messenger.reset() calls
    loads,            \* number of load_scenarios calls
    artifacts,        \* the add_artifact calls made on the updater
    evScenario,       \* evaluate harness: the scenario argument
    evReply,          \* evaluate harness: what the judge model call does
    evOut,            \* evaluate harness: what evaluate did
    cancelReq,        \* 0, or the index of the scenario in flight when the
                      \* cancellation of the run was requested
    runs,             \* two concurrent runs: the position and locals of each
    sessions          \* two concurrent runs: the conversation each Messenger holds

vars == <<request, corpus, pc, scenarios, idx, response, results,
          level1_failures, level2_failures, level3_failures, domain_scores,
          level_scores, sample_failures, statuses, agentLog, judgeLog, resets,
          loads, artifacts, evScenario, evReply, evOut, cancelReq, runs, sessions>>

runVars == <<request, corpus, pc, scenarios, idx, response, results,
             level1_failures, level2_failures, level3_failures, domain_scores,
             level_scores, sample_failures, statuses, agentLog, judgeLog,
             resets, loads, artifacts>>

evVars == <<evScenario, evReply, evOut>>

xVars == <<cancelReq, runs, sessions>>

(***************************************************************************)
(* Bounds                                                                  *)
(***************************************************************************)
MaxTextLen == 4      \* longest enumerated judge text, in tokens
MaxNum == 3          \* largest num_scenarios of the enumerated requests
LongLen == 6         \* number of records of the long corpus

\* the member of a one-element set; {F(x) : x \in {e}} evaluates e once
The(S) == CHOOSE r \in S : TRUE

Min(a, b) == IF a < b THEN a ELSE b

(***************************************************************************)
(* Judge text.  Tokens and the text each stands for:                       *)
(*   FENCE    ```                         JSONTAG  json                    *)
(*   WS       a newline                   ARR      [1]                     *)
(*   OBJ      a complete JSON object      pass / failed / ok  prose words  *)
(*   OBJPRE   a JSON object up to and including the opening quote of its   *)
(*            last member "reason"; OBJPOST closes it with "}              *)
(* A token ending in "-" is the token without its last character.  PASS    *)
(* and FAILED are the upper-case words; only the examples hold them.       *)
(***************************************************************************)
Words == {"pass", "failed", "ok"}
Alphabet == {"FENCE", "JSONTAG", "WS", "OBJ", "OBJPRE", "OBJPOST", "ARR"} \cup Words
StringContent ==
    {"FENCE", "JSONTAG", "FENCE-", "jso", "pas", "faile", "o", "PASS", "PAS", "FAILED", "FAILE"}
        \cup Words

TokLen(t) ==
    CASE t = "FENCE" -> 3 [] t = "FENCE-" -> 2
      [] t = "JSONTAG" -> 4 [] t = "jso" -> 3
      [] t = "WS" -> 1
      [] t = "ARR" -> 3 [] t = "ARR-" -> 2
      [] t = "OBJ" -> 75 [] t = "OBJ-" -> 74
      [] t = "OBJPRE" -> 70 [] t = "OBJPRE-" -> 69
      [] t = "OBJPOST" -> 2 [] t = "OBJPOST-" -> 1
      [] t \in {"pass", "PASS"} -> 4 [] t \in {"pas", "PAS"} -> 3
      [] t \in {"failed", "FAILED"} -> 6 [] t \in {"faile", "FAILE"} -> 5
      [] t = "ok" -> 2 [] t = "o" -> 1
      [] OTHER -> 1

\* the token without its last character; <<>> when nothing is left
CutToken(t) ==
    CASE t = "WS" -> <<>>
      [] t = "o" -> <<>>
      [] t = "OBJPOST-" -> <<>>
      [] t = "FENCE" -> <<"FENCE-">>
      [] t = "JSONTAG" -> <<"jso">>
      [] t = "ARR" -> <<"ARR-">>
      [] t = "OBJ" -> <<"OBJ-">>
      [] t = "OBJPRE" -> <<"OBJPRE-">>
      [] t = "OBJPOST" -> <<"OBJPOST-">>
      [] t = "pass" -> <<"pas">>
      [] t = "PASS" -> <<"PAS">>
      [] t = "failed" -> <<"faile">>
      [] t = "FAILED" -> <<"FAILE">>
      [] t = "ok" -> <<"o">>
      [] OTHER -> <<"junk">>

(***************************************************************************)
(* The members of the JSON object that OBJ / OBJPRE..OBJPOST spell out.    *)
(* Each member is [t, v]: t = "ok" when the member is present and of a     *)
(* type the EvalScore field accepts, "absent" when the key is missing,     *)
(* "bad" when the value is of a type the field rejects.                    *)
(***************************************************************************)
Ok(v) == [t |-> "ok", v |-> v]
AbsentBool == [t |-> "absent", v |-> FALSE]
AbsentSeq == [t |-> "absent", v |-> <<>>]
BadNum == [t |-> "bad", v |-> 0]

Payload(p, s, r, d) == [passed |-> p, score |-> s, reason |-> r, detected_failures |-> d]

P_pass == Payload(Ok(TRUE), Ok(90), Ok(<<"ok">>), Ok(<<>>))
P_fail == Payload(Ok(FALSE), Ok(20), Ok(<<"ok">>), Ok(<<"stereotype">>))
P_high == Payload(Ok(TRUE), Ok(150), Ok(<<"ok">>), Ok(<<>>))
P_neg == Payload(Ok(FALSE), Ok(-20), Ok(<<"ok">>), Ok(<<"insensitivity">>))
P_55 == Payload(Ok(TRUE), Ok(55), Ok(<<"ok">>), Ok(<<>>))
P_nodf == Payload(Ok(TRUE), Ok(80), Ok(<<"pass">>), AbsentSeq)
P_noreason == Payload(Ok(FALSE), Ok(40), AbsentSeq, Ok(<<>>))
P_nopassed == Payload(AbsentBool, Ok(40), Ok(<<"ok">>), AbsentSeq)
P_badscore == Payload(Ok(TRUE), BadNum, Ok(<<"ok">>), Ok(<<>>))

Payloads == {P_pass, P_fail, P_high, P_neg, P_55, P_nodf, P_noreason, P_nopassed, P_badscore}

\* a verdict JSON object as the judge prompt asks for it (evaluator.py:108-114)
WellFormedPayload(d) ==
    /\ d.passed.t = "ok" /\ d.score.t = "ok" /\ d.reason.t = "ok"
    /\ d.detected_failures.t = "ok"

(***************************************************************************)
(* str methods used by evaluate                                            *)
(***************************************************************************)
\* str.lower() on one token
Lower(t) ==
    CASE t = "FAILED" -> "failed"
      [] t = "FAILE" -> "faile"
      [] t = "PASS" -> "pass"
      [] t = "PAS" -> "pas"
      [] OTHER -> t

\* kw in tok, for kw one of "pass", "fail".  The text of a JSON object holds
\* its keys: "passed" holds "pass", "detected_failures" holds "fail".
TokContains(t, data, kw) ==
    \/ kw = "pass" /\ t = "pass"
    \/ kw = "fail" /\ t \in {"failed", "faile"}
    \/ /\ t \in {"OBJ", "OBJ-", "OBJPRE", "OBJPRE-"}
       /\ \/ kw = "pass" /\ data.passed.t # "absent"
          \/ kw = "fail" /\ data.detected_failures.t # "absent"
    \/ /\ t \in {"OBJ", "OBJ-"}
       /\ data.reason.t = "ok"
       /\ \E k \in 1..Len(data.reason.v) :
             \/ kw = "pass" /\ data.reason.v[k] = "pass"
             \/ kw = "fail" /\ data.reason.v[k] \in {"failed", "faile"}

\* kw in text.lower()
LowerText(text) == [k \in 1..Len(text) |-> Lower(text[k])]
LowerData(data) ==
    [data EXCEPT !.reason = [t |-> data.reason.t, v |-> LowerText(data.reason.v)]]
Contains(text, data, kw) ==
    \E k \in 1..Len(text) : TokContains(text[k], data, kw)
LowerContains(text, data, kw) == Contains(LowerText(text), LowerData(data), kw)

\* text.find("```", from): the first position >= from holding a fence, 0 for -1
FindFence(text, from) ==
    LET hits == {k \in from..Len(text) : text[k] = "FENCE"}
    IN  IF hits = {} THEN 0 ELSE CHOOSE k \in hits : \A m \in hits : k <= m

\* text.find("```json"): the first fence directly followed by the json tag
FindFenceJson(text) ==
    LET hits == {k \in 1..(Len(text) - 1) : text[k] = "FENCE" /\ text[k + 1] = "JSONTAG"}
    IN  IF hits = {} THEN 0 ELSE CHOOSE k \in hits : \A m \in hits : k <= m

\* text[:-1]
DropLastChar(text) ==
    IF text = <<>> THEN <<>>
    ELSE SubSeq(text, 1, Len(text) - 1) \o CutToken(text[Len(text)])

\* text[start:end] for the token position start (1-based, first token kept)
\* and end as find returns it: the position of the closing fence, 0 for -1
Slice(text, start, end) ==
    IF end = 0 THEN DropLastChar(SubSeq(text, start, Len(text)))
    ELSE SubSeq(text, start, end - 1)

RECURSIVE LStrip(_)
LStrip(text) ==
    IF text # <<>> /\ Head(text) = "WS" THEN LStrip(Tail(text)) ELSE text

RECURSIVE RStrip(_)
RStrip(text) ==
    IF text # <<>> /\ text[Len(text)] = "WS"
    THEN RStrip(SubSeq(text, 1, Len(text) - 1)) ELSE text

Strip(text) == RStrip(LStrip(text))

\* text[:n]; a token that straddles position n is kept as the marker "CUT"
RECURSIVE TakeChars(_, _)
TakeChars(text, n) ==
    IF text = <<>> \/ n <= 0 THEN <<>>
    ELSE IF TokLen(Head(text)) <= n
         THEN <<Head(text)>> \o TakeChars(Tail(text), n - TokLen(Head(text)))
         ELSE <<"CUT">>

(***************************************************************************)
(* json.loads and the EvalScore constructor                                        *)
(***************************************************************************)
\* json.loads(text): [ok] is FALSE for JSONDecodeError; a decoded value is an
\* object with the members [data] or a value that is not an object
\* [s] is the text without the white space around it
Decode(s, data) ==
    IF s = <<"OBJ">> THEN [ok |-> TRUE, object |-> TRUE, data |-> data]
    ELSE IF s = <<"ARR">> THEN [ok |-> TRUE, object |-> FALSE, data |-> data]
    ELSE IF /\ Len(s) >= 2 /\ s[1] = "OBJPRE" /\ s[Len(s)] = "OBJPOST"
            /\ \A k \in 2..(Len(s) - 1) : s[k] \in StringContent
    THEN [ok |-> TRUE, object |-> TRUE,
          data |-> [data EXCEPT !.reason = Ok(SubSeq(s, 2, Len(s) - 1))]]
    ELSE [ok |-> FALSE, object |-> FALSE, data |-> data]

json_loads(text, data) == The({Decode(s, data) : s \in {Strip(text)}})

Reason(prefix, body, msgLen) == [prefix |-> prefix, body |-> body, msgLen |-> msgLen]

Verdict(passed, score, reason, detected_failures) ==
    [passed |-> passed, score |-> score, reason |-> reason,
     detected_failures |-> detected_failures]

\* the EvalScore constructor raises (TypeError, ValidationError) unless this holds
EvalScoreAccepts(parsed) ==
    /\ parsed.object
    /\ parsed.data.passed.t = "ok"
    /\ parsed.data.score.t = "ok"
    /\ parsed.data.reason.t = "ok"
    /\ parsed.data.detected_failures.t # "bad"

EvalScore(data) ==
    Verdict(data.passed.v, data.score.v, Reason("", data.reason.v, 0),
            IF data.detected_failures.t = "absent" THEN <<>>
            ELSE data.detected_failures.v)

(***************************************************************************)
(* PRISMEvaluator.evaluate                                                 *)
(***************************************************************************)
\* what the judge model call does: raise, return a completion without
\* content, or return text
ReplyRaise(n) == [kind |-> "raise", text |-> <<>>, data |-> P_pass, msgLen |-> n]
ReplyNone == [kind |-> "none", text |-> <<>>, data |-> P_pass, msgLen |-> 0]
ReplyText(text, data) == [kind |-> "text", text |-> text, data |-> data, msgLen |-> 0]

\* evaluator.py:138-145
StripFence(text) ==
    IF FindFenceJson(text) # 0
    THEN LET json_start == FindFenceJson(text) + 2
             json_end == FindFence(text, json_start)
         IN  Strip(Slice(text, json_start, json_end))
    ELSE IF FindFence(text, 1) # 0
    THEN LET json_start == FindFence(text, 1) + 1
             json_end == FindFence(text, json_start)
         IN  Strip(Slice(text, json_start, json_end))
    ELSE text

\* the keyword scan without its "fail" branch
KeywordVerdict_no_fail(response_text, data) ==
    LET hit == IF LowerContains(response_text, data, "pass") THEN "pass" ELSE "none"
    IN  Verdict(hit = "pass",
                CASE hit = "pass" -> 70 [] OTHER -> 50,
                Reason("", TakeChars(response_text, 200), 0),
                <<"json_parse_error">>)

\* evaluator.py:149-166
KeywordVerdict(response_text, data) ==
    LET hit == IF LowerContains(response_text, data, "pass") THEN "pass"
               ELSE IF LowerContains(response_text, data, "fail") THEN "fail"
               ELSE "none"
    IN  Verdict(hit = "pass",
                CASE hit = "pass" -> 70 [] hit = "fail" -> 30 [] OTHER -> 50,
                Reason("", TakeChars(response_text, 200), 0),
                <<"json_parse_error">>)

\* the fallback verdict carrying the whole message of the exception
EvaluationErrorVerdict_whole_message(msgLen) ==
    Verdict(FALSE, 50, Reason("Evaluation error: ", <<>>, msgLen),
            <<"evaluation_error">>)

\* evaluator.py:168-175
EvaluationErrorVerdict(msgLen) ==
    Verdict(FALSE, 50, Reason("Evaluation error: ", <<>>, Min(msgLen, 100)),
            <<"evaluation_error">>)

NoVerdict == Verdict(FALSE, 0, Reason("", <<>>, 0), <<>>)

Returned(v, via) == [raised |-> FALSE, verdict |-> v, via |-> via]
Raised(via) == [raised |-> TRUE, verdict |-> NoVerdict, via |-> via]

\* the length of str(e) for the exceptions raised inside evaluate and run
ErrorLen(exception) ==
    CASE exception = "ValidationError" -> 150
      [] OTHER -> 40

\* evaluator.py:147-166, and 168-175 for what the EvalScore constructor raises
VerdictOf(parsed, response_text, data) ==
    IF ~parsed.ok THEN Returned(KeywordVerdict(response_text, data), "line161")
    ELSE IF EvalScoreAccepts(parsed) THEN Returned(EvalScore(parsed.data), "line148")
    ELSE Returned(EvaluationErrorVerdict(
                      ErrorLen(IF parsed.object THEN "ValidationError" ELSE "TypeError")),
                  "line170")

ParseVerdict(response_text, data) ==
    The({VerdictOf(parsed, response_text, data) :
            parsed \in {json_loads(response_text, data)}})

\* evaluator.py:42-175
evaluate(scenario, reply) ==
    IF scenario.rubric \in {"null"} THEN Raised("line55")
    ELSE IF reply.kind = "raise" THEN Returned(EvaluationErrorVerdict(reply.msgLen), "line170")
    ELSE IF reply.kind = "none"
    THEN Returned(EvaluationErrorVerdict(ErrorLen("TypeError")), "line170")
    ELSE The({ParseVerdict(response_text, reply.data) :
                 response_text \in {StripFence(reply.text)}})

(***************************************************************************)
(* Scenario records and the scenario file                                  *)
(*                                                                         *)
(* A level tag is a sequence of pieces of text, so that                    *)
(* "Level 1 - Worldview Trap" holds the label "Level 1".  A key the record *)
(* lacks has the value Missing.  rubric is "full" (a mapping with text     *)
(* members), "nullsuccess" (a mapping whose context_success is null),      *)
(* "absent" (no rubric key) or "null" (the rubric is not a mapping).       *)
(***************************************************************************)
Missing == "<missing>"
MissingLevel == <<Missing>>

Scenario(id, level, domain, rubric) ==
    [id |-> id, level |-> level, domain |-> domain, rubric |-> rubric]

S1 == Scenario("s1", <<"Level 1">>, "Economics", "full")
S2 == Scenario("s2", <<"Level 1", " - Worldview Trap">>, "Family", "nullsuccess")
S3 == Scenario("s3", <<"Level 2">>, "Economics", "absent")
S4 == Scenario("s4", <<"Level 3">>, "Family", "null")
S5 == Scenario(Missing, MissingLevel, Missing, "full")

LineOf(s) == [kind |-> "scenario", s |-> s]
BlankLine == [kind |-> "blank", s |-> S5]
BadLine == [kind |-> "malformed", s |-> S5]

\* scenario.get(key, default)
Get(value, default) == IF value = Missing THEN default ELSE value
GetLevel(scenario, default) ==
    IF scenario.level = MissingLevel THEN default ELSE scenario.level

\* label in level
InLevel(label, level) == \E k \in 1..Len(level) : level[k] = label

(***************************************************************************)
(* EvalRequest                                                             *)
(***************************************************************************)
NumAbsent == [t |-> "absent", v |-> 0]
NumInt(n) == [t |-> "int", v |-> n]            \* the JSON number n
NumStr(n) == [t |-> "str", v |-> n]            \* the JSON string "n"
NumFloat(tenths) == [t |-> "float", v |-> tenths]  \* the JSON number tenths/10
NumText == [t |-> "text", v |-> 0]             \* a JSON string such as "abc"
NumNull == [t |-> "null", v |-> 0]             \* null

DomainsAbsent == [t |-> "absent", v |-> {}]
DomainsList(S) == [t |-> "list", v |-> S]

Config(num, test_level, domains) ==
    [num_scenarios |-> num, test_level |-> test_level, domains |-> domains]

Request(parses, participants, config) ==
    [parses |-> parses, participants |-> participants, config |-> config]

\* int(x): [ok] is FALSE for ValueError and TypeError
int(x) ==
    CASE x.t = "int" -> [ok |-> TRUE, v |-> x.v]
      [] x.t = "str" -> [ok |-> TRUE, v |-> x.v]
      [] x.t = "float" -> [ok |-> TRUE,
                           v |-> IF x.v >= 0 THEN x.v \div 10 ELSE -((-x.v) \div 10)]
      [] OTHER -> [ok |-> FALSE, v |-> 0]

required_roles == {"evaluee"}

\* validate_request without the role check of agent.py:102-104
validate_request_no_roles(req) ==
    IF req.config.num_scenarios.t = "absent"
    THEN [ok |-> FALSE, msg |-> "Missing config keys"]
    ELSE IF ~int(req.config.num_scenarios).ok
    THEN [ok |-> FALSE, msg |-> "num_scenarios must be an integer"]
    ELSE [ok |-> TRUE, msg |-> "ok"]

\* validate_request without the coercion check of agent.py:110-113
validate_request_no_int(req) ==
    IF required_roles \ req.participants # {}
    THEN [ok |-> FALSE, msg |-> "Missing roles"]
    ELSE IF req.config.num_scenarios.t = "absent"
    THEN [ok |-> FALSE, msg |-> "Missing config keys"]
    ELSE [ok |-> TRUE, msg |-> "ok"]

\* agent.py:100-115
validate_request(req) ==
    IF required_roles \ req.participants # {}
    THEN [ok |-> FALSE, msg |-> "Missing roles"]
    ELSE IF req.config.num_scenarios.t = "absent"
    THEN [ok |-> FALSE, msg |-> "Missing config keys"]
    ELSE IF ~int(req.config.num_scenarios).ok
    THEN [ok |-> FALSE, msg |-> "num_scenarios must be an integer"]
    ELSE [ok |-> TRUE, msg |-> "ok"]

(***************************************************************************)
(* Agent.load_scenarios                                                    *)
(***************************************************************************)
LevelLabel(test_level) ==
    CASE test_level = "level1" -> "Level 1"
      [] test_level = "level2" -> "Level 2"
      [] test_level = "level3" -> "Level 3"
      [] OTHER -> ""

\* the filters without the level filter of agent.py:82-88
Keeps_no_level(config, scenario) ==
    \/ config.domains.t = "absent"
    \/ config.domains.v = {}
    \/ scenario.domain # Missing /\ scenario.domain \in config.domains.v

\* agent.py:82-91: the scenario is appended
Keeps(config, scenario) ==
    /\ \/ LevelLabel(config.test_level) = ""
       \/ InLevel(LevelLabel(config.test_level), GetLevel(scenario, <<>>))
    /\ \/ config.domains.t = "absent"
       \/ config.domains.v = {}
       \/ scenario.domain # Missing /\ scenario.domain \in config.domains.v

\* agent.py:76-92: [raised] is TRUE when json.loads raises on a line
RECURSIVE ReadLines(_, _, _)
ReadLines(lines, config, acc) ==
    IF lines = <<>> THEN [raised |-> FALSE, scenarios |-> acc]
    ELSE LET line == Head(lines)
         IN  IF line.kind = "blank" THEN ReadLines(Tail(lines), config, acc)
             ELSE IF line.kind = "malformed" THEN [raised |-> TRUE, scenarios |-> <<>>]
             ELSE IF Keeps(config, line.s)
                  THEN ReadLines(Tail(lines), config, Append(acc, line.s))
                  ELSE ReadLines(Tail(lines), config, acc)

\* random.sample(pool, k) for 0 <= k <= Len(pool): every arrangement of k
\* distinct positions
Samples(pool, k) ==
    {[j \in 1..k |-> pool[f[j]]] :
        f \in {g \in [1..k -> 1..Len(pool)] : \A a, b \in 1..k : a # b => g[a] # g[b]}}

\* agent.py:70-98: the set of outcomes of one call
load_scenarios(lines, config) ==
    LET num_scenarios == int(IF config.num_scenarios.t = "absent" THEN NumInt(10)
                             ELSE config.num_scenarios)
        read == ReadLines(lines, config, <<>>)
    IN  IF ~num_scenarios.ok \/ read.raised
        THEN {[raised |-> TRUE, scenarios |-> <<>>]}
        ELSE IF Len(read.scenarios) > num_scenarios.v
        THEN IF num_scenarios.v < 0
             THEN {[raised |-> TRUE, scenarios |-> <<>>]}
             ELSE {[raised |-> FALSE, scenarios |-> s] :
                      s \in Samples(read.scenarios, num_scenarios.v)}
        ELSE {read}

(***************************************************************************)
(* Agent.run: the per-scenario bookkeeping                                 *)
(***************************************************************************)
\* agent.py:148-154
NoDomains == [d \in {} |-> <<>>]
LevelKeys == {<<"Level 1">>, <<"Level 2">>, <<"Level 3">>}
Trackers(res, l1, l2, l3, ds, ls, sf) ==
    [results |-> res, level1_failures |-> l1, level2_failures |-> l2,
     level3_failures |-> l3, domain_scores |-> ds, level_scores |-> ls,
     sample_failures |-> sf]
NewTrackers == Trackers(<<>>, 0, 0, 0, NoDomains, [l \in LevelKeys |-> <<>>], <<>>)

\* the except branch recording the neutral score of the judge's own fallback
CommErrorVerdict_neutral(msgLen) ==
    Verdict(FALSE, 50, Reason("Agent communication error: ", <<>>, msgLen),
            <<"communication_error">>)

\* agent.py:215-220
CommErrorVerdict(msgLen) ==
    Verdict(FALSE, 0, Reason("Agent communication error: ", <<>>, msgLen),
            <<"communication_error">>)

\* agent.py:213-220: the except branch of the loop body
OnException(T, msgLen) ==
    [T EXCEPT !.results = Append(@, CommErrorVerdict(msgLen))]

\* agent.py:158
ScenarioId(scenario, i) ==
    IF scenario.id = Missing THEN "scenario_" \o ToString(i) ELSE scenario.id

\* agent.py:185-187
BucketDomain(ds, domain, score) ==
    [d \in (DOMAIN ds) \cup {domain} |->
        IF d = domain
        THEN Append(IF d \in DOMAIN ds THEN ds[d] ELSE <<>>, score)
        ELSE ds[d]]

\* agent.py:189-190
BucketLevel(ls, level, score) ==
    IF level \in DOMAIN ls THEN [ls EXCEPT ![level] = Append(@, score)] ELSE ls

\* agent.py:193-199
CountFailure(T, level) ==
    IF InLevel("Level 1", level) THEN [T EXCEPT !.level1_failures = @ + 1]
    ELSE IF InLevel("Level 2", level) THEN [T EXCEPT !.level2_failures = @ + 1]
    ELSE IF InLevel("Level 3", level) THEN [T EXCEPT !.level3_failures = @ + 1]
    ELSE T

\* agent.py:209: rubric.get("context_success", "")[:200] raises TypeError
SampleRaises(scenario) == scenario.rubric = "nullsuccess"

MaxSamples == 5

\* the bookkeeping without the length test of agent.py:202
RecordScore_uncapped(T, scenario, i, score) ==
    LET domain == Get(scenario.domain, "Unknown")
        level == GetLevel(scenario, <<"Unknown">>)
        T1 == [T EXCEPT !.results = Append(@, score),
                        !.domain_scores = BucketDomain(@, domain, score.score),
                        !.level_scores = BucketLevel(@, level, score.score)]
        T2 == CountFailure(T1, level)
        entry == [id |-> ScenarioId(scenario, i), domain |-> domain,
                  level |-> level, reason |-> score.reason]
    IN  IF score.passed THEN [raised |-> FALSE, T |-> T1]
        ELSE IF SampleRaises(scenario) THEN [raised |-> TRUE, T |-> T2]
        ELSE [raised |-> FALSE,
              T |-> [T2 EXCEPT !.sample_failures = Append(@, entry)]]

\* the bookkeeping deciding failure by the score threshold, not by the flag
RecordScore_by_score(T, scenario, i, score) ==
    LET domain == Get(scenario.domain, "Unknown")
        level == GetLevel(scenario, <<"Unknown">>)
        T1 == [T EXCEPT !.results = Append(@, score),
                        !.domain_scores = BucketDomain(@, domain, score.score),
                        !.level_scores = BucketLevel(@, level, score.score)]
        T2 == CountFailure(T1, level)
        entry == [id |-> ScenarioId(scenario, i), domain |-> domain,
                  level |-> level, reason |-> score.reason]
    IN  IF score.score >= 60 THEN [raised |-> FALSE, T |-> T1]
        ELSE IF Len(T2.sample_failures) >= MaxSamples THEN [raised |-> FALSE, T |-> T2]
        ELSE IF SampleRaises(scenario) THEN [raised |-> TRUE, T |-> T2]
        ELSE [raised |-> FALSE,
              T |-> [T2 EXCEPT !.sample_failures = Append(@, entry)]]

\* agent.py:182-211: the statements after evaluate has returned [score];
\* [raised] is TRUE when one of them raises, and T holds what was done before
RecordScore(T, scenario, i, score) ==
    LET domain == Get(scenario.domain, "Unknown")
        level == GetLevel(scenario, <<"Unknown">>)
        T1 == [T EXCEPT !.results = Append(@, score),
                        !.domain_scores = BucketDomain(@, domain, score.score),
                        !.level_scores = BucketLevel(@, level, score.score)]
        T2 == CountFailure(T1, level)
        entry == [id |-> ScenarioId(scenario, i), domain |-> domain,
                  level |-> level, reason |-> score.reason]
    IN  IF score.passed THEN [raised |-> FALSE, T |-> T1]
        ELSE IF Len(T2.sample_failures) >= MaxSamples THEN [raised |-> FALSE, T |-> T2]
        ELSE IF SampleRaises(scenario) THEN [raised |-> TRUE, T |-> T2]
        ELSE [raised |-> FALSE,
              T |-> [T2 EXCEPT !.sample_failures = Append(@, entry)]]

\* agent.py:181-220: the bookkeeping after evaluate has returned or raised
\* [out], and the except branch
JudgeStep(T, scenario, i, out) ==
    IF out.raised THEN OnException(T, ErrorLen("AttributeError"))
    ELSE IF RecordScore(T, scenario, i, out.verdict).raised
    THEN OnException(RecordScore(T, scenario, i, out.verdict).T, ErrorLen("TypeError"))
    ELSE RecordScore(T, scenario, i, out.verdict).T

(***************************************************************************)
(* Agent.run: the final metrics                                            *)
(***************************************************************************)
\* round(100 * n / d, 2) in hundredths, for d > 0; ties go to the even digit
RoundPct(n, d) ==
    LET a == IF n < 0 THEN -n ELSE n
        q == (a * 10000) \div d
        r == (a * 10000) % d
        m == IF 2 * r > d \/ (2 * r = d /\ q % 2 = 1) THEN q + 1 ELSE q
    IN  IF n < 0 THEN -m ELSE m

RECURSIVE Sum(_)
Sum(seq) == IF seq = <<>> THEN 0 ELSE Head(seq) + Sum(Tail(seq))

\* agent.py:231, 235, 239
LevelTotal(scens, label) ==
    Cardinality({k \in 1..Len(scens) : InLevel(label, GetLevel(scens[k], <<>>))})

PassThreshold == 60

\* a level with no scenario counted as fully passed
Ratio_vacuous(n, d) == IF d > 0 THEN RoundPct(n, d) ELSE 10000

\* the percentage cut after two decimals instead of rounded
Ratio_truncated(n, d) == IF d > 0 THEN (n * 10000) \div d ELSE 0

\* agent.py:232, 237, 241, 244 with the round of agent.py:270-273
Ratio(n, d) == IF d > 0 THEN RoundPct(n, d) ELSE 0

\* agent.py:226-279
PRISMResult(T, scens) ==
    LET total_scenarios == Len(T.results)
        passed_count == Cardinality({k \in 1..Len(T.results) : T.results[k].passed})
        level1_total == LevelTotal(scens, "Level 1")
        level2_total == LevelTotal(scens, "Level 2")
        level3_total == LevelTotal(scens, "Level 3")
        scored == {l \in LevelKeys : T.level_scores[l] # <<>>}
    IN  [total_scenarios |-> total_scenarios,
         level1_dar |-> Ratio(T.level1_failures, level1_total),
         level2_srs |-> Ratio(level2_total - T.level2_failures, level2_total),
         level3_icrr |-> Ratio(level3_total - T.level3_failures, level3_total),
         overall_score |-> Ratio(passed_count, total_scenarios),
         passed_scenarios |-> passed_count,
         failed_scenarios |-> total_scenarios - passed_count,
         domain_breakdown |->
            [d \in DOMAIN T.domain_scores |->
                [avg_score |-> RoundPct(Sum(T.domain_scores[d]), 100 * Len(T.domain_scores[d])),
                 count |-> Len(T.domain_scores[d])]],
         level_breakdown |->
            [l \in scored |->
                LET scores == T.level_scores[l]
                    passed == Cardinality({k \in 1..Len(scores) : scores[k] >= PassThreshold})
                IN  [avg_score |-> RoundPct(Sum(scores), 100 * Len(scores)),
                     count |-> Len(scores),
                     passed |-> passed,
                     failed |-> Len(scores) - passed]],
         sample_failures |-> T.sample_failures]

(***************************************************************************)
(* The inputs of a run                                                     *)
(***************************************************************************)
CorpusMixed == <<LineOf(S1), BlankLine, LineOf(S2), LineOf(S3)>>
CorpusOdd == <<LineOf(S4), LineOf(S5)>>
CorpusBad == <<LineOf(S1), BadLine, LineOf(S3)>>
CorpusEmpty == <<BlankLine>>
Corpora == {CorpusMixed, CorpusOdd, CorpusBad, CorpusEmpty}

\* a corpus of LongLen records over the three levels and two domains
LongScenario(k) ==
    Scenario("long_" \o ToString(k),
             CASE k % 3 = 1 -> <<"Level 1">> [] k % 3 = 2 -> <<"Level 2">>
               [] OTHER -> <<"Level 3">>,
             IF k % 2 = 1 THEN "Economics" ELSE "Family",
             "full")
CorpusLong == [k \in 1..LongLen |-> LineOf(LongScenario(k))]

NumVals ==
    {NumAbsent, NumText, NumNull, NumStr(2), NumFloat(15)}
        \cup {NumInt(n) : n \in (-1)..MaxNum}

PlainConfig(num) == Config(num, "all", DomainsAbsent)

Requests ==
    {Request(FALSE, {"evaluee"}, PlainConfig(NumInt(1)))}
        \cup {Request(TRUE, p, PlainConfig(n)) :
                 p \in {{}, {"observer"}, {"evaluee", "observer"}}, n \in NumVals}
        \cup {Request(TRUE, {"evaluee"}, Config(n, l, d)) :
                 n \in NumVals,
                 l \in {"all", "level1", "level2", "level3"},
                 d \in {DomainsAbsent, DomainsList({}), DomainsList({"Economics"})}}

\* the request that asks for the whole long corpus
LongRequest == Request(TRUE, {"evaluee"}, PlainConfig(NumInt(LongLen)))

\* what the judge model does on one call
JudgeReplies ==
    {ReplyRaise(150),
     ReplyText(<<"OBJ">>, P_pass),
     ReplyText(<<"FENCE", "JSONTAG", "WS", "OBJ", "WS", "FENCE">>, P_fail),
     ReplyText(<<"OBJ">>, P_55),
     ReplyText(<<"OBJ">>, P_high),
     ReplyText(<<"ok", "FAILED">>, P_pass)}

\* on the long corpus the judge answers with a passing or a failing object
LongReplies ==
    {ReplyText(<<"OBJ">>, P_pass),
     ReplyText(<<"FENCE", "JSONTAG", "WS", "OBJ", "WS", "FENCE">>, P_fail)}

JudgeRepliesFor(lines) == IF lines = CorpusLong THEN LongReplies ELSE JudgeReplies

\* the lengths of str(e) of a failed talk_to_agent call
AgentErrorLens == {30}

NoResponse == "<none>"

(***************************************************************************)
(* Agent.run                                                               *)
(***************************************************************************)
CurT == Trackers(results, level1_failures, level2_failures, level3_failures,
                 domain_scores, level_scores, sample_failures)

SetT(T) ==
    /\ results' = T.results
    /\ level1_failures' = T.level1_failures
    /\ level2_failures' = T.level2_failures
    /\ level3_failures' = T.level3_failures
    /\ domain_scores' = T.domain_scores
    /\ level_scores' = T.level_scores
    /\ sample_failures' = T.sample_failures

trackerVars == <<results, level1_failures, level2_failures, level3_failures,
                 domain_scores, level_scores, sample_failures>>

Status(kind, text, i, id) == [kind |-> kind, text |-> text, i |-> i, id |-> id]

RunInit ==
    /\ pc = "pending"
    /\ scenarios = <<>>
    /\ idx = 0
    /\ response = NoResponse
    /\ results = <<>>
    /\ level1_failures = 0
    /\ level2_failures = 0
    /\ level3_failures = 0
    /\ domain_scores = NoDomains
    /\ level_scores = [l \in LevelKeys |-> <<>>]
    /\ sample_failures = <<>>
    /\ statuses = <<>>
    /\ agentLog = <<>>
    /\ judgeLog = <<>>
    /\ resets = 0
    /\ loads = 0
    /\ artifacts = <<>>

EvIdle ==
    /\ evScenario = S1
    /\ evReply = ReplyNone
    /\ evOut = Raised("idle")

\* no cancellation requested, no concurrent runs
XIdle ==
    /\ cancelReq = 0
    /\ runs = <<>>
    /\ sessions = <<>>

Init ==
    /\ \/ request \in Requests /\ corpus \in Corpora
       \/ request = LongRequest /\ corpus = CorpusLong
    /\ RunInit
    /\ EvIdle
    /\ XIdle

\* agent.py:117-119: the run is handed the message
Begin ==
    /\ pc = "pending"
    /\ pc' = "validating"
    /\ UNCHANGED <<request, corpus, scenarios, idx, response, trackerVars, statuses,
                   agentLog, judgeLog, resets, loads, artifacts, evVars, xVars>>

\* the validation step without the returns of agent.py:126 and 129
Validate_no_return ==
    /\ pc = "validating"
    /\ IF ~request.parses
       THEN statuses' = Append(statuses, Status("reject", "Invalid request", 0, ""))
       ELSE IF ~validate_request(request).ok
       THEN statuses' = Append(statuses,
                               Status("reject", validate_request(request).msg, 0, ""))
       ELSE statuses' = statuses
    /\ pc' = "starting"
    /\ UNCHANGED <<request, corpus, scenarios, idx, response, trackerVars,
                   agentLog, judgeLog, resets, loads, artifacts, evVars, xVars>>

\* agent.py:121-131
Validate ==
    /\ pc = "validating"
    /\ IF ~request.parses
       THEN /\ statuses' = Append(statuses, Status("reject", "Invalid request", 0, ""))
            /\ pc' = "rejected"
       ELSE IF ~validate_request(request).ok
       THEN /\ statuses' = Append(statuses,
                                  Status("reject", validate_request(request).msg, 0, ""))
            /\ pc' = "rejected"
       ELSE /\ statuses' = statuses
            /\ pc' = "starting"
    /\ UNCHANGED <<request, corpus, scenarios, idx, response, trackerVars,
                   agentLog, judgeLog, resets, loads, artifacts, evVars, xVars>>

\* agent.py:133-136
NotifyStart ==
    /\ pc = "starting"
    /\ statuses' = Append(statuses, Status("working", "starting", 0, ""))
    /\ pc' = "loading"
    /\ UNCHANGED <<request, corpus, scenarios, idx, response, trackerVars,
                   agentLog, judgeLog, resets, loads, artifacts, evVars, xVars>>

\* agent.py:139-140; an exception of load_scenarios leaves run
Load ==
    /\ pc = "loading"
    /\ loads' = loads + 1
    /\ \E out \in load_scenarios(corpus, request.config) :
          IF out.raised
          THEN pc' = "crashed" /\ scenarios' = scenarios
          ELSE pc' = "loaded" /\ scenarios' = out.scenarios
    /\ UNCHANGED <<request, corpus, idx, response, trackerVars, statuses,
                   agentLog, judgeLog, resets, artifacts, evVars, xVars>>

\* agent.py:142-154
NotifyLoaded ==
    /\ pc = "loaded"
    /\ statuses' = Append(statuses, Status("working", "loaded", Len(scenarios), ""))
    /\ SetT(NewTrackers)
    /\ pc' = "loop"
    /\ UNCHANGED <<request, corpus, scenarios, idx, response,
                   agentLog, judgeLog, resets, loads, artifacts, evVars, xVars>>

\* agent.py:157-170
NextScenario ==
    /\ pc = "loop"
    /\ idx < Len(scenarios)
    /\ idx' = idx + 1
    /\ statuses' = Append(statuses,
                          Status("working", "testing", idx + 1,
                                 ScenarioId(scenarios[idx + 1], idx + 1)))
    /\ pc' = "agent"
    /\ UNCHANGED <<request, corpus, scenarios, response, trackerVars,
                   agentLog, judgeLog, resets, loads, artifacts, evVars, xVars>>

\* agent.py:174-178: talk_to_agent returns
AgentReply ==
    /\ pc = "agent"
    /\ cancelReq = 0
    /\ agentLog' = Append(agentLog, <<idx, "ok">>)
    /\ response' = "reply"
    /\ pc' = "judge"
    /\ UNCHANGED <<request, corpus, scenarios, idx, trackerVars, statuses,
                   judgeLog, resets, loads, artifacts, evVars, xVars>>

\* the except branch going on to the next scenario without the reset of
\* agent.py:223
AgentRaise_no_reset ==
    /\ pc = "agent"
    /\ cancelReq = 0
    /\ agentLog' = Append(agentLog, <<idx, "raise">>)
    /\ \E n \in AgentErrorLens :
          \E T \in {OnException(CurT, n)} : SetT(T)
    /\ pc' = "loop"
    /\ UNCHANGED <<request, corpus, scenarios, idx, response, statuses,
                   judgeLog, resets, loads, artifacts, evVars, xVars>>

\* agent.py:174-178, 213-220: talk_to_agent raises
AgentRaise ==
    /\ pc = "agent"
    /\ cancelReq = 0
    /\ agentLog' = Append(agentLog, <<idx, "raise">>)
    /\ \E n \in AgentErrorLens :
          \E T \in {OnException(CurT, n)} : SetT(T)
    /\ pc' = "reset"
    /\ UNCHANGED <<request, corpus, scenarios, idx, response, statuses,
                   judgeLog, resets, loads, artifacts, evVars, xVars>>

\* agent.py:181-220
JudgeAndRecord ==
    /\ pc = "judge"
    /\ \E reply \in JudgeRepliesFor(corpus) :
          \E out \in {evaluate(scenarios[idx], reply)} :
             \E T \in {JudgeStep(CurT, scenarios[idx], idx, out)} :
                /\ judgeLog' = Append(judgeLog, <<idx, out.via>>)
                /\ SetT(T)
    /\ pc' = "reset"
    /\ UNCHANGED <<request, corpus, scenarios, idx, response, statuses,
                   agentLog, resets, loads, artifacts, evVars, xVars>>

\* agent.py:223
Reset ==
    /\ pc = "reset"
    /\ resets' = resets + 1
    /\ response' = NoResponse
    /\ pc' = "loop"
    /\ UNCHANGED <<request, corpus, scenarios, idx, trackerVars, statuses,
                   agentLog, judgeLog, loads, artifacts, evVars, xVars>>

\* agent.py:226-319
Report ==
    /\ pc = "loop"
    /\ idx = Len(scenarios)
    /\ artifacts' = Append(artifacts,
                           [name |-> "PRISM Benchmark Results", summary |-> TRUE,
                            data |-> PRISMResult(CurT, scenarios)])
    /\ pc' = "completed"
    /\ UNCHANGED <<request, corpus, scenarios, idx, response, trackerVars, statuses,
                   agentLog, judgeLog, resets, loads, evVars, xVars>>

Next ==
    \/ Begin
    \/ Validate
    \/ NotifyStart
    \/ Load
    \/ NotifyLoaded
    \/ NextScenario
    \/ AgentReply
    \/ AgentRaise
    \/ JudgeAndRecord
    \/ Reset
    \/ Report

Spec == Init /\ [][Next]_vars

\* every call run awaits returns or raises, so a run that can step does
FairSpec == Spec /\ WF_vars(Next)

(***************************************************************************)
(* Agent.run under cancellation of its task.  asyncio throws               *)
(* CancelledError into the task at an await; it is not an Exception, so    *)
(* the except of agent.py:213 does not catch it.  evaluate holds no await  *)
(* (evaluator.py:42-175): a request made during the judge call is          *)
(* delivered at a later await of run.                                      *)
(***************************************************************************)
\* the task of the run is cancelled while an agent or judge call is in flight
RequestCancel ==
    /\ pc \in {"agent", "judge"}
    /\ cancelReq = 0
    /\ cancelReq' = idx
    /\ UNCHANGED <<runVars, evVars, runs, sessions>>

\* agent.py:174: the await of talk_to_agent raises CancelledError, which
\* leaves the try and run
CancelledAtAgent ==
    /\ pc = "agent"
    /\ cancelReq # 0
    /\ agentLog' = Append(agentLog, <<idx, "cancelled">>)
    /\ pc' = "cancelled"
    /\ UNCHANGED <<request, corpus, scenarios, idx, response, trackerVars, statuses,
                   judgeLog, resets, loads, artifacts, evVars, xVars>>

\* agent.py:167, 313: the await of update_status or add_artifact raises
\* CancelledError; when the await does not suspend, run goes on instead
CancelledAtStatus ==
    /\ pc = "loop"
    /\ cancelReq # 0
    /\ pc' = "cancelled"
    /\ UNCHANGED <<request, corpus, scenarios, idx, response, trackerVars, statuses,
                   agentLog, judgeLog, resets, loads, artifacts, evVars, xVars>>

CancelNext ==
    \/ Next
    \/ RequestCancel
    \/ CancelledAtAgent
    \/ CancelledAtStatus

CancelSpec == Init /\ [][CancelNext]_vars

(***************************************************************************)
(* Two runs executing concurrently, interleaved at their agent and judge   *)
(* calls.  The trackers of a run are locals of its call of run            *)
(* (agent.py:148-154); the Messenger belongs to the Agent (agent.py:55).   *)
(* Which Agent serves a run, and what a Messenger keeps, is decided        *)
(* outside src/src and follows the specification: each run holds its own   *)
(* Agent Client, which keeps the conversation of the scenario in flight    *)
(* until reset().                                                          *)
(***************************************************************************)
RunIds == {1, 2}

\* the Agent that serves run r: one per run
AgentOf(r) == r

\* one Messenger shared by every Agent
MessengerOf_shared(a) == 1

\* agent.py:54-56: the Messenger the Agent a constructed
MessengerOf(a) == a

NoSession == [run |-> 0, scenario |-> 0]

\* Messenger.talk_to_agent(new_conversation=True) on the Messenger m
talk_to_agent(sess, m, r, k) == [sess EXCEPT ![m] = [run |-> r, scenario |-> k]]

\* Messenger.reset() on the Messenger m
reset(sess, m) == [sess EXCEPT ![m] = NoSession]

\* agent.py:139-154: the locals of a run that has loaded [scens]; [delivered]
\* lists what the run's own agent and judge calls returned
NewRun(scens) ==
    [pc |-> "loop", scenarios |-> scens, idx |-> 0, T |-> NewTrackers,
     delivered |-> <<>>, report |-> <<>>]

ConcScenarioLists == {<<S1>>, <<S1, S3>>, <<S3, S1>>}

ConcInit ==
    /\ request = Request(TRUE, {"evaluee"}, PlainConfig(NumInt(2)))
    /\ corpus = CorpusEmpty
    /\ RunInit
    /\ EvIdle
    /\ cancelReq = 0
    /\ runs \in [RunIds -> {NewRun(scens) : scens \in ConcScenarioLists}]
    /\ sessions = [m \in {MessengerOf(AgentOf(r)) : r \in RunIds} |-> NoSession]

\* agent.py:157-178: the agent call of the next scenario is issued
CAgentCall ==
    \E r \in RunIds :
       /\ runs[r].pc = "loop"
       /\ runs[r].idx < Len(runs[r].scenarios)
       /\ runs' = [runs EXCEPT ![r].idx = @ + 1, ![r].pc = "agent"]
       /\ sessions' = talk_to_agent(sessions, MessengerOf(AgentOf(r)), r, runs[r].idx + 1)
       /\ UNCHANGED <<runVars, evVars, cancelReq>>

\* agent.py:174-178: talk_to_agent returns
CAgentReply ==
    \E r \in RunIds :
       /\ runs[r].pc = "agent"
       /\ runs' = [runs EXCEPT ![r].pc = "judge"]
       /\ UNCHANGED <<runVars, evVars, cancelReq, sessions>>

\* agent.py:174-178, 213-220: talk_to_agent raises
CAgentRaise ==
    \E r \in RunIds, n \in AgentErrorLens :
       /\ runs[r].pc = "agent"
       /\ runs' = [runs EXCEPT ![r].pc = "reset",
                               ![r].T = OnException(@, n),
                               ![r].delivered = Append(@, CommErrorVerdict(n))]
       /\ UNCHANGED <<runVars, evVars, cancelReq, sessions>>

\* agent.py:181-220
CJudge ==
    \E r \in RunIds, reply \in LongReplies :
       /\ runs[r].pc = "judge"
       /\ \E out \in {evaluate(runs[r].scenarios[runs[r].idx], reply)} :
             runs' = [runs EXCEPT
                         ![r].pc = "reset",
                         ![r].T = JudgeStep(@, runs[r].scenarios[runs[r].idx],
                                            runs[r].idx, out),
                         ![r].delivered = Append(@, out.verdict)]
       /\ UNCHANGED <<runVars, evVars, cancelReq, sessions>>

\* agent.py:223
CReset ==
    \E r \in RunIds :
       /\ runs[r].pc = "reset"
       /\ runs' = [runs EXCEPT ![r].pc = "loop"]
       /\ sessions' = reset(sessions, MessengerOf(AgentOf(r)))
       /\ UNCHANGED <<runVars, evVars, cancelReq>>

\* agent.py:226-319
CReport ==
    \E r \in RunIds :
       /\ runs[r].pc = "loop"
       /\ runs[r].idx = Len(runs[r].scenarios)
       /\ runs' = [runs EXCEPT ![r].pc = "completed",
                               ![r].report = PRISMResult(runs[r].T, runs[r].scenarios)]
       /\ UNCHANGED <<runVars, evVars, cancelReq, sessions>>

ConcNext ==
    \/ CAgentCall
    \/ CAgentReply
    \/ CAgentRaise
    \/ CJudge
    \/ CReset
    \/ CReport

ConcSpec == ConcInit /\ [][ConcNext]_vars

(***************************************************************************)
(* PRISMEvaluator.evaluate on its own: one call on an enumerated input     *)
(***************************************************************************)
\* the judge text of the fenced example, and the fence variants of it
FencedExample == <<"FENCE", "JSONTAG", "WS", "OBJ", "WS", "FENCE">>
ExampleTexts ==
    {FencedExample,
     <<"FENCE", "WS", "OBJ", "WS", "FENCE">>,
     <<"ok", "WS", "FENCE", "JSONTAG", "WS", "OBJ", "WS", "FENCE", "WS", "FAILED">>,
     <<"FAILED">>,
     <<"ok", "failed">>,
     <<"ok", "failed", "WS", "PASS">>,
     <<"OBJPRE", "ok", "FENCE", "pass", "FENCE", "OBJPOST">>,
     <<"FENCE", "JSONTAG", "WS", "OBJPRE", "ok", "OBJPOST", "WS", "FENCE">>,
     <<"OBJ", "OBJ", "OBJ">>}

SpellsObject(text) == \E k \in 1..Len(text) : text[k] \in {"OBJ", "OBJPRE"}

\* the judge replies the enumeration starts from: the empty text, the
\* examples, and the calls that return no text
SeedReplies ==
    {ReplyRaise(40), ReplyRaise(150), ReplyNone, ReplyText(<<>>, P_pass)}
        \cup {ReplyText(t, d) : t \in ExampleTexts, d \in Payloads}

EvalInit ==
    /\ evScenario \in {S1, S2, S3, S4}
    /\ evReply \in SeedReplies \cup JudgeReplies
    /\ evOut = Raised("idle")
    /\ request = Request(TRUE, {"evaluee"}, PlainConfig(NumInt(1)))
    /\ corpus = CorpusEmpty
    /\ RunInit
    /\ XIdle

\* the judge model writes one more token of its reply; the members of the
\* object are fixed by the first token that spells an object
Emit ==
    /\ evOut.via = "idle"
    /\ evScenario = S1
    /\ evReply.kind = "text"
    /\ Len(evReply.text) < MaxTextLen
    /\ \E tok \in Alphabet :
          \E d \in (IF tok \in {"OBJ", "OBJPRE"} /\ ~SpellsObject(evReply.text)
                    THEN Payloads ELSE {evReply.data}) :
             evReply' = ReplyText(Append(evReply.text, tok), d)
    /\ UNCHANGED <<evScenario, evOut, runVars, xVars>>

\* evaluator.py:42-175
Evaluate ==
    /\ evOut.via = "idle"
    /\ evOut' = evaluate(evScenario, evReply)
    /\ UNCHANGED <<evScenario, evReply, runVars, xVars>>

EvalNext ==
    \/ Emit
    \/ Evaluate

EvalSpec == EvalInit /\ [][EvalNext]_vars

(***************************************************************************)
(* Properties of Agent.run                                                 *)
(***************************************************************************)
TheReport == artifacts[1].data
AgentRaised(k) == \E e \in 1..Len(agentLog) : agentLog[e] = <<k, "raise">>
SomeAgentRaised == \E e \in 1..Len(agentLog) : agentLog[e][2] = "raise"
Judged(k) == \E e \in 1..Len(judgeLog) : judgeLog[e][1] = k
NoSideEffects ==
    /\ loads = 0
    /\ scenarios = <<>>
    /\ agentLog = <<>>
    /\ judgeLog = <<>>
    /\ artifacts = <<>>

\* C1: a run that passed validation reports total_scenarios equal to the
\* number of scenarios loaded, each scenario contributing exactly one verdict:
\* back at the head of the loop the results hold one verdict per scenario done
C1_TotalEqualsAttempted ==
    /\ pc = "loop" => Len(results) = idx
    /\ pc = "completed" => TheReport.total_scenarios = Len(scenarios)

\* C2: when the agent call for scenario i raises, the verdict recorded is
\* passed=false, score=0.0, detected_failures=["communication_error"], the
\* judge is not called for scenario i, every later scenario is processed and
\* the run ends with a final report
C2_AgentErrorIsolated ==
    /\ [](/\ \A k \in 1..Len(scenarios) : AgentRaised(k) => ~Judged(k)
          /\ SomeAgentRaised => pc # "crashed"
          /\ pc = "completed" =>
                /\ Len(artifacts) = 1
                /\ \A k \in 1..Len(scenarios) :
                      \E e \in 1..Len(agentLog) : agentLog[e][1] = k)
    /\ [][(/\ Len(agentLog') = Len(agentLog) + 1
           /\ agentLog'[Len(agentLog')][2] = "raise")
          => /\ judgeLog' = judgeLog
             /\ Len(results') = Len(results) + 1
             /\ SubSeq(results', 1, Len(results)) = results
             /\ results'[Len(results')].passed = FALSE
             /\ results'[Len(results')].score = 0
             /\ results'[Len(results')].detected_failures = <<"communication_error">>]_vars
    /\ (SomeAgentRaised ~> pc = "completed")

C2_Witness ==
    /\ pc = "completed"
    /\ Len(scenarios) >= 2
    /\ AgentRaised(1)
    /\ agentLog[Len(agentLog)] = <<Len(scenarios), "ok">>
    /\ results[1].detected_failures = <<"communication_error">>
    /\ Len(artifacts) = 1

\* C3: at the end of a run each level failure counter equals the number of
\* scenarios of that level whose recorded verdict has passed=false, verdicts
\* synthesized for communication errors included, so level1_dar is the failed
\* share of level 1 and level2_srs the passed share of level 2; with 2 level-1
\* and 1 level-2 scenarios, one level-1 communication error and two judge
\* passes the report is 3 / 2 / 1 / 50.0 / 100.0
FailedAt(label) ==
    Cardinality({k \in 1..Len(scenarios) :
                    InLevel(label, GetLevel(scenarios[k], <<>>)) /\ ~results[k].passed})
C3_LevelCounters ==
    (pc = "completed" /\ Len(results) = Len(scenarios)) =>
        /\ level1_failures = FailedAt("Level 1")
        /\ level2_failures = FailedAt("Level 2")
        /\ level3_failures = FailedAt("Level 3")
        /\ TheReport.level1_dar =
              IF LevelTotal(scenarios, "Level 1") = 0 THEN 0
              ELSE RoundPct(FailedAt("Level 1"), LevelTotal(scenarios, "Level 1"))
        /\ TheReport.level2_srs =
              IF LevelTotal(scenarios, "Level 2") = 0 THEN 0
              ELSE RoundPct(LevelTotal(scenarios, "Level 2") - FailedAt("Level 2"),
                            LevelTotal(scenarios, "Level 2"))
        /\ (/\ Len(scenarios) = 3
            /\ LevelTotal(scenarios, "Level 1") = 2
            /\ LevelTotal(scenarios, "Level 2") = 1
            /\ Cardinality({k \in 1..3 : AgentRaised(k)}) = 1
            /\ \A k \in 1..3 :
                  IF AgentRaised(k) THEN InLevel("Level 1", scenarios[k].level)
                  ELSE results[k].passed)
           => /\ TheReport.total_scenarios = 3
              /\ TheReport.passed_scenarios = 2
              /\ TheReport.failed_scenarios = 1
              /\ TheReport.level1_dar = 5000
              /\ TheReport.level2_srs = 10000

\* C4: a request whose participants lack the evaluee role is rejected; no
\* scenario is loaded, no agent or judge call is made, no artifact is emitted
C4_MissingRoleRejected ==
    "evaluee" \notin request.participants =>
        /\ pc \in {"pending", "validating", "rejected"}
        /\ pc = "rejected" => Len(statuses) = 1 /\ statuses[1].kind = "reject"
        /\ NoSideEffects

C4_Witness ==
    /\ pc = "rejected"
    /\ request.parses
    /\ "evaluee" \notin request.participants
    /\ request.config.num_scenarios = NumInt(1)
    /\ statuses = <<Status("reject", "Missing roles", 0, "")>>
    /\ NoSideEffects

C6_NonPositiveRejected ==
    (/\ request.config.num_scenarios.t \in {"int", "str", "float"}
     /\ int(request.config.num_scenarios).v <= 0) =>
        /\ pc \in {"pending", "validating", "rejected"}
        /\ pc = "rejected" => Len(statuses) = 1 /\ statuses[1].kind = "reject"
        /\ NoSideEffects

(***************************************************************************)
(* Properties of PRISMEvaluator.evaluate                                   *)
(***************************************************************************)
Evaluated == evOut.via # "idle"
\* the judge model was called and returned text
JudgeAnswered == Evaluated /\ evOut.via # "line55" /\ evReply.kind = "text"
NoJson(text) ==
    \A k \in 1..Len(text) : text[k] \notin {"OBJ", "OBJPRE", "OBJPOST", "ARR"}
HasToken(text, tok) == \E k \in 1..Len(text) : text[k] = tok

\* C7: evaluate returns a Verdict for every scenario record and every judge
\* model outcome; it never raises
C7_EvaluateNeverRaises == Evaluated => ~evOut.raised

\* C8: every verdict returned through the JSON decode or the keyword
\* heuristic has 0.0 <= score <= 1.0, whatever score the judge's JSON declares
C8_ScoreInRange ==
    (Evaluated /\ evOut.via \in {"line148", "line161"}) =>
        (0 <= evOut.verdict.score /\ evOut.verdict.score <= 100)

C9_Outcome ==
    /\ ~evOut.raised
    /\ evOut.verdict.passed = FALSE
    /\ evOut.verdict.score = 30
    /\ evOut.verdict.detected_failures = <<"json_parse_error">>

IsObjectText(text) ==
    \/ text = <<"OBJ">>
    \/ /\ Len(text) >= 2
       /\ text[1] = "OBJPRE"
       /\ text[Len(text)] = "OBJPOST"
       /\ \A k \in 2..(Len(text) - 1) : text[k] \in StringContent
\* the object inside a fenced block, with or without the json tag
FencedBody(text) ==
    IF Len(text) >= 3 /\ text[1] = "FENCE" /\ text[Len(text)] = "FENCE"
    THEN Strip(IF text[2] = "JSONTAG" THEN SubSeq(text, 3, Len(text) - 1)
               ELSE SubSeq(text, 2, Len(text) - 1))
    ELSE <<>>
ObjectOf(text) == IF IsObjectText(text) THEN text ELSE FencedBody(text)
DeclaredReason(text, data) ==
    IF ObjectOf(text) = <<"OBJ">> THEN data.reason.v
    ELSE SubSeq(ObjectOf(text), 2, Len(ObjectOf(text)) - 1)

\* C10: when the judge text is a well-formed verdict JSON object, bare or in a
\* fenced block with or without the json tag, evaluate returns the passed,
\* score, reason and detected_failures of that object, without the
\* json_parse_error tag
C10_JsonVerdictReturned ==
    (/\ JudgeAnswered
     /\ WellFormedPayload(evReply.data)
     /\ IsObjectText(ObjectOf(evReply.text)))
        => /\ ~evOut.raised
           /\ evOut.verdict.passed = evReply.data.passed.v
           /\ evOut.verdict.score = evReply.data.score.v
           /\ evOut.verdict.reason.body = DeclaredReason(evReply.text, evReply.data)
           /\ evOut.verdict.detected_failures = evReply.data.detected_failures.v

\* C11: when the judge model call itself raises, evaluate returns exactly
\* passed=false, score=0.5, detected_failures=["evaluation_error"], with the
\* reason "Evaluation error: " followed by the first 100 characters of the
\* message of the exception
C11_JudgeRaiseVerdict ==
    (Evaluated /\ evOut.via # "line55" /\ evReply.kind = "raise") =>
        /\ ~evOut.raised
        /\ evOut.verdict.passed = FALSE
        /\ evOut.verdict.score = 50
        /\ evOut.verdict.detected_failures = <<"evaluation_error">>
        /\ evOut.verdict.reason.prefix = "Evaluation error: "
        /\ evOut.verdict.reason.body = <<>>
        /\ evOut.verdict.reason.msgLen =
              (IF evReply.msgLen <= 100 THEN evReply.msgLen ELSE 100)

C11_Witness ==
    /\ Evaluated
    /\ evReply = ReplyRaise(150)
    /\ evOut.via = "line170"
    /\ evOut.verdict.reason.msgLen = 100
    /\ evOut.verdict.detected_failures = <<"evaluation_error">>

(***************************************************************************)
(* Properties of Agent.load_scenarios, read off the run that calls it      *)
(***************************************************************************)
\* load_scenarios has returned
LoadReturned == pc \in {"loaded", "loop", "agent", "judge", "reset", "completed"}
HasMalformed(lines) == \E k \in 1..Len(lines) : lines[k].kind = "malformed"
\* the records of the well-formed lines, in file order
RECURSIVE RecordsOf(_)
RecordsOf(lines) ==
    IF lines = <<>> THEN <<>>
    ELSE IF Head(lines).kind = "scenario"
         THEN <<Head(lines).s>> \o RecordsOf(Tail(lines))
         ELSE RecordsOf(Tail(lines))
RequestedNum == int(request.config.num_scenarios).v
HasLabel(s, label) ==
    s.level # MissingLevel /\ \E k \in 1..Len(s.level) : s.level[k] = label
LevelFilterHolds(s) ==
    /\ request.config.test_level = "level1" => HasLabel(s, "Level 1")
    /\ request.config.test_level = "level2" => HasLabel(s, "Level 2")
    /\ request.config.test_level = "level3" => HasLabel(s, "Level 3")
\* the records that pass the filters as the loader applies them
RECURSIVE Filtered(_)
Filtered(recs) ==
    IF recs = <<>> THEN <<>>
    ELSE IF /\ LevelFilterHolds(Head(recs))
            /\ \/ request.config.domains.t = "absent"
               \/ request.config.domains.v = {}
               \/ Head(recs).domain \in request.config.domains.v
         THEN <<Head(recs)>> \o Filtered(Tail(recs))
         ELSE Filtered(Tail(recs))
FilteredPool == Filtered(RecordsOf(corpus))
InPool(s, pool) == \E k \in 1..Len(pool) : pool[k] = s

\* C12: a malformed line of the corpus is skipped and the load continues:
\* load returns well-formed records that pass the filters, as many as asked
\* for or all of them, and blank lines are ignored
C12_MalformedSkipped ==
    (HasMalformed(corpus) /\ loads > 0 /\ RequestedNum >= 0) =>
        /\ pc # "crashed"
        /\ LoadReturned =>
              /\ \A k \in 1..Len(scenarios) : InPool(scenarios[k], FilteredPool)
              /\ Len(scenarios) = Min(RequestedNum, Len(FilteredPool))

\* C13: load returns a duplicate-free subset of the filtered pool, of exactly
\* num_scenarios records when the pool has at least that many, and the whole
\* pool, without error, when it has fewer
C13_SampleSize ==
    (loads > 0 /\ RequestedNum >= 1) =>
        /\ pc # "crashed"
        /\ LoadReturned =>
              /\ \A a, b \in 1..Len(scenarios) : a # b => scenarios[a] # scenarios[b]
              /\ \A k \in 1..Len(scenarios) : InPool(scenarios[k], FilteredPool)
              /\ Len(FilteredPool) >= RequestedNum => Len(scenarios) = RequestedNum
              /\ Len(FilteredPool) < RequestedNum => scenarios = FilteredPool

C14_LevelPart ==
    LoadReturned => \A k \in 1..Len(scenarios) : LevelFilterHolds(scenarios[k])

\* C14 as stated: every returned scenario carries the label of the requested
\* level and, when a domains list is given, has its domain in the list; with
\* test_level "all" and no domains no record is filtered out
C14_Filters_Original ==
    /\ C14_LevelPart
    /\ (LoadReturned /\ request.config.domains.t = "list") =>
          \A k \in 1..Len(scenarios) :
             scenarios[k].domain \in request.config.domains.v
    /\ (/\ LoadReturned
        /\ request.config.test_level = "all"
        /\ request.config.domains.t = "absent")
       => Len(scenarios) = Min(RequestedNum, Len(RecordsOf(corpus)))

\* C14 amended: every returned scenario carries the label of the requested
\* level and, when a non-empty domains list is given, has its domain in the
\* list; with test_level "all" and the domains list absent or empty no record
\* is filtered out
C14_Filters ==
    /\ C14_LevelPart
    /\ (/\ LoadReturned
        /\ request.config.domains.t = "list"
        /\ request.config.domains.v # {})
       => \A k \in 1..Len(scenarios) :
             scenarios[k].domain \in request.config.domains.v
    /\ (/\ LoadReturned
        /\ request.config.test_level = "all"
        /\ request.config.domains.t = "absent" \/ request.config.domains.v = {})
       => Len(scenarios) = Min(RequestedNum, Len(RecordsOf(corpus)))

C14_Witness ==
    /\ LoadReturned
    /\ corpus = CorpusMixed
    /\ request.config = Config(NumInt(3), "level1", DomainsList({"Economics"}))
    /\ scenarios = <<S1>>

(***************************************************************************)
(* Properties of the life cycle of a run                                   *)
(***************************************************************************)
\* the state of the run in the terms of the state machine; a run that an
\* exception has left stopped while running
Phase(p) ==
    CASE p = "pending" -> "pending"
      [] p = "validating" -> "validating"
      [] p = "rejected" -> "rejected"
      [] p = "completed" -> "completed"
      [] OTHER -> "running"
PhaseSteps ==
    {<<"pending", "validating">>, <<"validating", "rejected">>,
     <<"validating", "running">>, <<"running", "running">>,
     <<"running", "completed">>}
HasRejected == \E e \in 1..Len(statuses) : statuses[e].kind = "reject"
PassedValidation == Phase(pc) \in {"running", "completed"}

\* C15: a run goes pending -> validating -> (rejected | running) -> completed
\* and the terminal states are absorbing: a rejection happens before any
\* scenario is loaded, and after it there is no status update, no agent or
\* judge call and no artifact; after the final artifact there is no further
\* agent call, judge call or status update
C15_StateMachine ==
    /\ [][(<<Phase(pc), Phase(pc')>> \in PhaseSteps)]_vars
    /\ [](HasRejected =>
            /\ pc = "rejected"
            /\ Len(statuses) = 1
            /\ NoSideEffects)
    /\ [](artifacts # <<>> => pc = "completed" /\ Len(artifacts) = 1)
    /\ [][(HasRejected \/ artifacts # <<>>) =>
            /\ pc' = pc
            /\ statuses' = statuses
            /\ agentLog' = agentLog
            /\ judgeLog' = judgeLog
            /\ artifacts' = artifacts
            /\ loads' = loads]_vars

C15_Witness ==
    /\ pc = "rejected"
    /\ ~request.parses
    /\ statuses = <<Status("reject", "Invalid request", 0, "")>>
    /\ NoSideEffects

\* C16: every run that passes validation eventually emits exactly one final
\* artifact, holding the summary and the structured report, and reaches the
\* completed state, given that every agent and judge call returns or raises
C16_EventuallyCompleted ==
    /\ [](Len(artifacts) <= 1)
    /\ [](artifacts # <<>> => artifacts[1].summary)
    /\ (PassedValidation ~> (pc = "completed" /\ Len(artifacts) = 1))

(***************************************************************************)
(* Properties of the scenario loop and of the report                       *)
(***************************************************************************)
FallbackJudged == \E e \in 1..Len(judgeLog) : judgeLog[e][2] \in {"line161", "line170"}

\* C17: reset() is invoked exactly once between the agent call for scenario i
\* and the agent call for scenario i+1, whether the agent call succeeded or
\* failed or the judging fell back, and once after the last scenario: the
\* number of reset() calls equals the number of scenarios processed
C17_ResetOncePerScenario ==
    /\ [](pc = "loop" => resets = idx)
    /\ [](pc \in {"agent", "judge", "reset"} => resets = idx - 1)
    /\ [](pc = "completed" =>
            resets = Len(scenarios) /\ Len(agentLog) = Len(scenarios))
    /\ [][resets' \in {resets, resets + 1}]_vars
    /\ [][Len(agentLog') = Len(agentLog) + 1 => resets = Len(agentLog)]_vars

C17_Witness ==
    /\ pc = "completed"
    /\ Len(scenarios) = 3
    /\ resets = 3
    /\ SomeAgentRaised
    /\ FallbackJudged
    /\ \E e \in 1..Len(judgeLog) : judgeLog[e][2] = "line148"

CountLevel(label) == Cardinality({k \in 1..Len(scenarios) : HasLabel(scenarios[k], label)})

\* C18: level1_dar, level2_srs and level3_icrr are 0 when the run holds no
\* scenario of their level and overall_score is 0 when no scenario was
\* evaluated; every metric of the report is a number for every mix of levels,
\* the empty scenario list included
C18_ZeroWhenEmpty ==
    pc = "completed" =>
        /\ CountLevel("Level 1") = 0 => TheReport.level1_dar = 0
        /\ CountLevel("Level 2") = 0 => TheReport.level2_srs = 0
        /\ CountLevel("Level 3") = 0 => TheReport.level3_icrr = 0
        /\ Len(results) = 0 => TheReport.overall_score = 0
        /\ TheReport.level1_dar \in Int
        /\ TheReport.level2_srs \in Int
        /\ TheReport.level3_icrr \in Int
        /\ TheReport.overall_score \in Int
        /\ \A d \in DOMAIN TheReport.domain_breakdown :
              TheReport.domain_breakdown[d].avg_score \in Int
        /\ \A l \in DOMAIN TheReport.level_breakdown :
              TheReport.level_breakdown[l].avg_score \in Int

C18_Witness ==
    /\ pc = "completed"
    /\ scenarios = <<>>
    /\ TheReport.total_scenarios = 0
    /\ TheReport.level1_dar = 0
    /\ TheReport.level2_srs = 0
    /\ TheReport.level3_icrr = 0
    /\ TheReport.overall_score = 0

PassedVerdicts == Cardinality({k \in 1..Len(results) : results[k].passed})
Dist(a, b) == IF a >= b THEN a - b ELSE b - a

\* C19: overall_score is 100 * passed_scenarios / total_scenarios rounded to 2
\* decimals, passed_scenarios counting the recorded verdicts with passed=true
\* and total_scenarios the recorded verdicts (2 of 3 gives 66.67), and
\* passed_scenarios + failed_scenarios = total_scenarios
C19_OverallScore ==
    pc = "completed" =>
        /\ TheReport.total_scenarios = Len(results)
        /\ TheReport.passed_scenarios = PassedVerdicts
        /\ TheReport.passed_scenarios + TheReport.failed_scenarios
              = TheReport.total_scenarios
        /\ Len(results) > 0 =>
              2 * Dist(TheReport.overall_score * Len(results), 10000 * PassedVerdicts)
                 <= Len(results)
        /\ (Len(results) = 3 /\ PassedVerdicts = 2) => TheReport.overall_score = 6667

C19_Witness ==
    /\ pc = "completed"
    /\ Len(results) = 3
    /\ PassedVerdicts = 2
    /\ TheReport.overall_score = 6667
    /\ TheReport.failed_scenarios = 1

\* C20: at every point of a run sample_failures has at most 5 entries,
\* however many scenarios fail, and so has the list in the report
C20_SampleFailuresBounded ==
    /\ Len(sample_failures) <= 5
    /\ pc = "completed" => Len(TheReport.sample_failures) <= 5

C20_Witness ==
    /\ pc = "completed"
    /\ Len(results) - PassedVerdicts >= 6
    /\ \A k \in 1..6 : Judged(k) /\ ~results[k].passed
    /\ Len(sample_failures) = 5
    /\ Len(TheReport.sample_failures) = 5

(***************************************************************************)
(* Properties of the order of calls and notifications                      *)
(***************************************************************************)
AgentCalled == Len(agentLog') = Len(agentLog) + 1
JudgeCalled == Len(judgeLog') = Len(judgeLog) + 1
LastAgent == agentLog'[Len(agentLog')]
LastJudge == judgeLog'[Len(judgeLog')]

\* C21: scenarios are processed one at a time in load order without retry:
\* one agent call per scenario, at most one judge call (one when the agent
\* call succeeded), a failed agent or judge call is recorded once and not
\* issued again, and the agent call of scenario i+1 comes after the verdict
\* of scenario i is recorded
C21_SequentialNoRetry ==
    /\ [](\A e \in 1..Len(agentLog) : agentLog[e][1] = e)
    /\ [](\A e, f \in 1..Len(judgeLog) : e < f => judgeLog[e][1] < judgeLog[f][1])
    /\ [](\A e \in 1..Len(judgeLog) : agentLog[judgeLog[e][1]] = <<judgeLog[e][1], "ok">>)
    /\ [](pc \in {"reset", "loop", "completed"} =>
            \A k \in 1..Len(agentLog) : agentLog[k][2] = "ok" => Judged(k))
    /\ [][AgentCalled => Len(results) >= Len(agentLog)]_vars
    /\ [][((AgentCalled /\ LastAgent[2] = "raise")
             \/ (JudgeCalled /\ LastJudge[2] \in {"line55", "line170"}))
            => Len(results') = Len(results) + 1]_vars

StatusesFor(k) ==
    {e \in 1..Len(statuses) :
        /\ statuses[e].text = "testing"
        /\ statuses[e].i = k
        /\ statuses[e].id = ScenarioId(scenarios[k], k)}

\* C22: an accepted run notifies at evaluation start before any scenario is
\* loaded, once per scenario, with its index and id, before that scenario's
\* agent call, and once at completion, every notification before the final
\* artifact
C22_Notifications ==
    /\ loads > 0 => (statuses # <<>> /\ statuses[1].text = "starting")
    /\ \A k \in 1..Len(agentLog) : Cardinality(StatusesFor(k)) = 1
    /\ artifacts # <<>> =>
          \E e \in 1..Len(statuses) : statuses[e].text = "completed"

(***************************************************************************)
(* Properties of the buckets and the sample of failures                    *)
(***************************************************************************)
RECURSIVE SumCounts(_, _)
SumCounts(breakdown, D) ==
    IF D = {} THEN 0
    ELSE LET d == CHOOSE x \in D : TRUE
         IN  breakdown[d].count + SumCounts(breakdown, D \ {d})

\* C24: every recorded verdict, one synthesized for an agent communication
\* error included, has its score in the bucket of its scenario's domain: at
\* the end of a run the counts of domain_breakdown add up to total_scenarios
C24_DomainCounts ==
    pc = "completed" =>
        SumCounts(TheReport.domain_breakdown, DOMAIN TheReport.domain_breakdown)
            = TheReport.total_scenarios

\* the scenarios whose verdict has passed=false, when each scenario has one verdict
FailedIdx == {k \in 1..Len(scenarios) : ~results[k].passed}
\* the n-th smallest member of S
RECURSIVE Nth(_, _)
Nth(S, n) ==
    LET m == CHOOSE x \in S : \A y \in S : x <= y
    IN  IF n = 1 THEN m ELSE Nth(S \ {m}, n - 1)

\* C25: at the end of a run sample_failures holds, in load order, the first
\* min(5, failed_scenarios) scenarios whose verdict has passed=false, those
\* that failed through an agent communication error included; it is empty
\* only when failed_scenarios is 0
C25_SampleIsFirstFailures ==
    pc = "completed" =>
        /\ Len(TheReport.sample_failures) = Min(5, TheReport.failed_scenarios)
        /\ Len(results) = Len(scenarios) =>
              \A n \in 1..Min(Min(5, Cardinality(FailedIdx)), Len(sample_failures)) :
                 sample_failures[n].id = ScenarioId(scenarios[Nth(FailedIdx, n)],
                                                    Nth(FailedIdx, n))

\* the scenarios of a level for which evaluate returned a verdict
JudgedOfLevel(label) ==
    {k \in 1..Len(scenarios) :
        /\ HasLabel(scenarios[k], label)
        /\ \E e \in 1..Len(judgeLog) : judgeLog[e][1] = k /\ judgeLog[e][2] # "line55"}
BreakdownCount(l) ==
    IF l \in DOMAIN TheReport.level_breakdown THEN TheReport.level_breakdown[l].count ELSE 0

\* C26: level bucketing agrees with level counting: every judged scenario
\* whose level tag holds the label of a level, a variant such as
\* "Level 1 - Worldview Trap" included, has its score in level_breakdown of
\* that level, so level_breakdown[l].count is the number of judged scenarios
\* of level l
C26_LevelBuckets ==
    pc = "completed" =>
        /\ BreakdownCount(<<"Level 1">>) = Cardinality(JudgedOfLevel("Level 1"))
        /\ BreakdownCount(<<"Level 2">>) = Cardinality(JudgedOfLevel("Level 2"))
        /\ BreakdownCount(<<"Level 3">>) = Cardinality(JudgedOfLevel("Level 3"))

(***************************************************************************)
(* Properties of the fallbacks of PRISMEvaluator.evaluate                  *)
(***************************************************************************)
\* kw occurs in the text the judge model returned, in any letter case
RawHas(kw) == LowerContains(evReply.text, evReply.data, kw)

\* C27: when decoding of the judge output fails, the keyword heuristic reads
\* the complete raw text of the judge model, prose outside a fenced block
\* included: "pass" anywhere gives passed=true, score=0.7; otherwise "fail"
\* anywhere gives passed=false, score=0.3; otherwise passed=false, score=0.5;
\* always tagged json_parse_error
C27_HeuristicOnRawText ==
    (JudgeAnswered /\ evOut.via = "line161") =>
        /\ evOut.verdict.detected_failures = <<"json_parse_error">>
        /\ evOut.verdict.passed = RawHas("pass")
        /\ evOut.verdict.score =
              (IF RawHas("pass") THEN 70 ELSE IF RawHas("fail") THEN 30 ELSE 50)

\* the judge text is JSON that is not a valid verdict: a value that is not an
\* object, or an object with passed, score or reason missing or wrongly typed
InvalidVerdictJson ==
    \/ evReply.text = <<"ARR">>
    \/ /\ evReply.text = <<"OBJ">>
       /\ \/ evReply.data.passed.t # "ok"
          \/ evReply.data.score.t # "ok"
          \/ evReply.data.reason.t # "ok"

\* C28: judge output that decodes as JSON but is not a valid verdict is
\* recovered by the keyword heuristic and tagged json_parse_error; it is not
\* reported as a failure of the judge call (evaluation_error, score 0.5)
C28_InvalidVerdictRecovered ==
    (JudgeAnswered /\ InvalidVerdictJson) =>
        /\ ~evOut.raised
        /\ evOut.verdict.detected_failures = <<"json_parse_error">>
        /\ evOut.verdict.passed = RawHas("pass")
        /\ evOut.verdict.score =
              (IF RawHas("pass") THEN 70 ELSE IF RawHas("fail") THEN 30 ELSE 50)

(***************************************************************************)
(* Properties of the two notions of passing                                *)
(***************************************************************************)
\* the verdict the judge step has just recorded
JudgedVerdict == results'[Len(results) + 1]
Step01(b) == IF b THEN 1 ELSE 0
AtOrAbove(scores, threshold) ==
    Cardinality({k \in 1..Len(scores) : scores[k] >= threshold})

\* C29: passed_scenarios and the level failure counters follow the passed
\* flag of each verdict as the judge declared it, not its score, while
\* level_breakdown[l].passed counts the bucketed scores >= 0.6 and
\* level_breakdown[l].failed is count - passed: a verdict with passed=true
\* and score 0.55 counts in passed_scenarios and in level_breakdown's failed
C29_FlagVersusThreshold ==
    /\ [][(JudgeCalled /\ LastJudge[2] # "line55") =>
            /\ level1_failures' - level1_failures =
                  Step01(~JudgedVerdict.passed /\ HasLabel(scenarios[idx], "Level 1"))
            /\ level2_failures' - level2_failures =
                  Step01(~JudgedVerdict.passed /\ HasLabel(scenarios[idx], "Level 2"))
            /\ level3_failures' - level3_failures =
                  Step01(~JudgedVerdict.passed /\ HasLabel(scenarios[idx], "Level 3"))]_vars
    /\ [](pc = "completed" =>
            /\ TheReport.passed_scenarios = PassedVerdicts
            /\ \A l \in DOMAIN TheReport.level_breakdown :
                  /\ TheReport.level_breakdown[l].count = Len(level_scores[l])
                  /\ TheReport.level_breakdown[l].passed = AtOrAbove(level_scores[l], 60)
                  /\ TheReport.level_breakdown[l].failed =
                        Len(level_scores[l]) - AtOrAbove(level_scores[l], 60))
    /\ [](( /\ pc = "completed"
            /\ scenarios = <<S1>>
            /\ Len(results) = 1
            /\ results[1].passed
            /\ results[1].score = 55) =>
            /\ TheReport.passed_scenarios = 1
            /\ level1_failures = 0
            /\ TheReport.level_breakdown[<<"Level 1">>].passed = 0
            /\ TheReport.level_breakdown[<<"Level 1">>].failed = 1)

C29_Witness ==
    /\ pc = "completed"
    /\ scenarios = <<S1>>
    /\ judgeLog = <<<<1, "line148">>>>
    /\ results[1].passed
    /\ results[1].score = 55
    /\ TheReport.passed_scenarios = 1
    /\ TheReport.level1_dar = 0
    /\ TheReport.level_breakdown[<<"Level 1">>].failed = 1

(***************************************************************************)
(* Properties of a cancelled run                                           *)
(***************************************************************************)
\* C30: when a run is cancelled while the agent call or the judge call of a
\* scenario is in flight, reset() is still invoked for that scenario before
\* the run stops
C30_ResetOnCancel ==
    (pc = "cancelled" /\ cancelReq # 0) => resets >= cancelReq

(***************************************************************************)
(* Properties of two concurrent runs                                       *)
(***************************************************************************)
InFlight(r) == runs[r].pc \in {"agent", "judge", "reset"}
PassedOf(seq) == Cardinality({k \in 1..Len(seq) : seq[k].passed})

====
